---- MODULE Spec2Model ----
(***************************************************************************)
(* gRPC-web transport for Node.js (createGrpcWebTransport): the unary call *)
(* and the streaming connection (send / close / read, responseHeader,      *)
(* responseTrailer), modelled over an abstract HTTP response: a response   *)
(* head and a body that is a sequence of parsed envelopes.                 *)
(***************************************************************************)
EXTENDS Integers, Sequences, FiniteSets, TLC

\* ------------------------------------------------------------------ bounds
MaxBody == 3      \* longest response body, in envelopes
MaxReads == 3     \* read() calls issued on one connection
MaxSends == 1     \* send() calls issued on one connection

Readers == {1, 2}                 \* callers that may have a read() in flight
MsgValues == {1, 2}               \* payloads of message envelopes
TrailerStatuses == {0, 8}         \* grpc-status carried by trailer envelopes

\* ------------------------------------------------------------ error values
ConnectError(msg, code) == [code |-> code, msg |-> msg]

NoErr == ConnectError("", "OK")

\* Code enum of connect-core, restricted to the values used here.
CodeOfStatus(s) ==
    CASE s = 5 -> "NotFound"
      [] s = 8 -> "ResourceExhausted"
      [] OTHER -> "Unknown"

\* HTTP status -> gRPC code table.
codeFromHttpStatus(status) ==
    CASE status = 401 -> "Unauthenticated"
      [] status = 403 -> "PermissionDenied"
      [] status = 404 -> "Unimplemented"
      [] status \in {429, 502, 503, 504} -> "Unavailable"
      [] OTHER -> "Unknown"

\* ------------------------------------------------------------ wire values
\* A header block (response headers, or the payload of a trailer envelope).
\* grpcStatus is <<>> when the field is absent, <<n>> when it is n.
Headers(ct, enc, st) == [ct |-> ct, enc |-> enc, grpcStatus |-> st]

NoHeaders == Headers("", "", <<>>)

TrailerBlock(s) == Headers("", "", <<s>>)

GoodContentType == "application/grpc-web+proto"

ContentTypes == {GoodContentType, "text/html"}

Encodings == {"", "zstd"}        \* "" is identity; acceptCompression is empty

HeaderStatuses == {<<>>, <<0>>, <<5>>}

HttpStatuses == {200, 404}

\* A parsed envelope as transformParseEnvelope emits it: end is the trailer
\* flag, value the message (a number) or the trailer block.
MsgEnv(v) == [end |-> FALSE, msg |-> v, trailer |-> NoHeaders]

TrailerEnv(s) == [end |-> TRUE, msg |-> 0, trailer |-> TrailerBlock(s)]

Envelopes == {MsgEnv(v) : v \in MsgValues} \cup {TrailerEnv(s) : s \in TrailerStatuses}

RECURSIVE SeqsUpTo(_, _)
SeqsUpTo(S, n) ==
    IF n = 0 THEN {<<>>}
    ELSE LET shorter == SeqsUpTo(S, n - 1)
         IN  shorter \cup {Append(q, x) : q \in {p \in shorter : Len(p) = n - 1}, x \in S}

Bodies == SeqsUpTo(Envelopes, MaxBody)

\* The body stream ends cleanly, or the split / decompress / parse transforms
\* raise after the last complete envelope (a truncated envelope).
BodyEnds == {"eof", "error"}

BodyError == ConnectError("protocol error: premature end of stream", "InvalidArgument")

RequestError == ConnectError("request failed", "Unavailable")

\* What the HTTP client raises once the signal it was given is aborted.
CanceledError == ConnectError("operation was aborted", "Canceled")

\* ------------------------------------------------- response validation
AcceptCompression == {}

\* validateResponseWithCompression: throws on a non-200 HTTP status, on an
\* unexpected content type, on an encoding that was not offered and on an error
\* status carried by the response headers; foundStatus tells that the headers
\* carry grpc-status (a trailers-only response).
validateResponseWithCompression(status, header) ==
    LET err ==
          IF status # 200
          THEN ConnectError("HTTP status", codeFromHttpStatus(status))
          ELSE IF header.ct # GoodContentType
          THEN ConnectError("unexpected response content type", "InvalidArgument")
          ELSE IF header.enc # "" /\ header.enc \notin AcceptCompression
          THEN ConnectError("unsupported response encoding", "InvalidArgument")
          ELSE IF header.grpcStatus # <<>> /\ header.grpcStatus[1] # 0
          THEN ConnectError("", CodeOfStatus(header.grpcStatus[1]))
          ELSE NoErr
    IN  [err |-> err, foundStatus |-> header.grpcStatus # <<>>]

\* validateTrailer: the error of a non-zero grpc-status, NoErr when it passes.
validateTrailer(trailer) ==
    IF trailer.grpcStatus # <<>> /\ trailer.grpcStatus[1] # 0
    THEN ConnectError("", CodeOfStatus(trailer.grpcStatus[1]))
    ELSE NoErr

\* ------------------------------------------------------- the HTTP response
ResponseHeaders ==
    {Headers(ct, enc, st) : ct \in ContentTypes, enc \in Encodings, st \in HeaderStatuses}

Defects(status, header) ==
    (IF status # 200 THEN 1 ELSE 0)
    + (IF header.ct # GoodContentType THEN 1 ELSE 0)
    + (IF header.enc # "" THEN 1 ELSE 0)

\* What opt.client() will produce: a failed request, or a response. A response
\* whose head is rejected is given the empty body (the body is never read), and
\* a head has at most one defect.
Responses ==
    {r \in [fails : BOOLEAN, status : HttpStatuses, header : ResponseHeaders,
            body : Bodies, bodyEnd : BodyEnds] :
        /\ Defects(r.status, r.header) <= 1
        /\ r.fails =>
             /\ r.status = 200
             /\ r.header = Headers(GoodContentType, "", <<>>)
        /\ (r.fails \/ validateResponseWithCompression(r.status, r.header).err # NoErr) =>
             /\ r.body = <<>>
             /\ r.bodyEnd = "eof"}

\* The next item the response pipeline (split, decompress, parse) hands to its
\* consumer at position pos of the body.
BodyItem(r, pos) ==
    IF pos <= Len(r.body) THEN [t |-> "env", env |-> r.body[pos]]
    ELSE IF r.bodyEnd = "error" /\ pos = Len(r.body) + 1
    THEN [t |-> "error", env |-> MsgEnv(0)]
    ELSE [t |-> "eof", env |-> MsgEnv(0)]

\* What the response pipeline hands over once the HTTP client has failed the
\* body because the signal was aborted.
CanceledItem == [t |-> "canceled", env |-> MsgEnv(0)]

\* ------------------------------------------------------------------- state
VARIABLES
    resp,             \* what the HTTP client produces for this call
    bodyPos,          \* items of the response body consumed so far, plus one
    upc,              \* unary call: "idle", "request", "body", "done"
    uacc,             \* unary call: the message and trailer collected so far
    uresult,          \* unary call: what the call settled to
    uRes,             \* universalResponsePromise: "pending", "fulfilled", "rejected",
                      \* "canceled" (rejected because the signal was aborted)
    responseHeader,   \* conn.responseHeader
    responseTrailer,  \* conn.responseTrailer (a deferred)
    outputIt,         \* index into iters of the current iterator, 0 when undefined
    iters,            \* response iterators created so far
    readers,          \* where each caller's read() stands
    waiters,          \* read() calls awaiting universalResponsePromise, in order
    jobs,             \* promise reaction jobs, first in first out
    results,          \* completed read() calls, in completion order
    readsIssued,      \* read() calls made so far
    aborted,          \* req.signal.aborted
    writable,         \* the writable iterable behind send() and close()
    sendsIssued       \* send() calls made so far

vars == <<resp, bodyPos, upc, uacc, uresult, uRes, responseHeader, responseTrailer,
          outputIt, iters, readers, waiters, jobs, results, readsIssued, aborted,
          writable, sendsIssued>>

unaryVars == <<upc, uacc, uresult>>

streamVars == <<uRes, responseHeader, responseTrailer, outputIt, iters, readers,
                waiters, jobs, results, readsIssued, aborted, writable, sendsIssued>>

sendVars == <<writable, sendsIssued>>

\* A promise: state is "pending", "resolved" or "rejected".
Pending == [state |-> "pending", value |-> NoHeaders, err |-> NoErr]

Resolved(v) == [state |-> "resolved", value |-> v, err |-> NoErr]

Rejected(e) == [state |-> "rejected", value |-> NoHeaders, err |-> e]

\* resolve() and reject() of a promise that is already settled do nothing.
Settle(p, to) == IF p.state = "pending" THEN to ELSE p

\* ------------------------------------------------------------ unary call
NoAcc == [message |-> <<>>, trailer |-> <<>>, err |-> NoErr]

UnaryPending == [kind |-> "pending", message |-> 0, trailer |-> NoHeaders,
                 header |-> NoHeaders, err |-> NoErr]

UnaryOk(message, trailer, header) ==
    [kind |-> "ok", message |-> message, trailer |-> trailer, header |-> header,
     err |-> NoErr]

UnaryFail(e) == [UnaryPending EXCEPT !.kind = "error", !.err = e]

\* UnaryOnEnvelope without the check for a second message: the last one wins.
UnaryOnEnvelope_KeepsLastMessage(acc, env) ==
    IF env.end
    THEN IF acc.trailer # <<>>
         THEN [acc EXCEPT !.err =
                 ConnectError("protocol error: received extra trailer", "InvalidArgument")]
         ELSE [acc EXCEPT !.trailer = <<env.trailer>>]
    ELSE [acc EXCEPT !.message = <<env.msg>>]

\* UnaryOnEnvelope that refuses a message once the trailer has been seen, as
\* the streaming iterator does.
UnaryOnEnvelope_TrailerLast(acc, env) ==
    IF env.end
    THEN IF acc.trailer # <<>>
         THEN [acc EXCEPT !.err =
                 ConnectError("protocol error: received extra trailer", "InvalidArgument")]
         ELSE [acc EXCEPT !.trailer = <<env.trailer>>]
    ELSE IF acc.trailer # <<>>
         THEN [acc EXCEPT !.err =
                 ConnectError("protocol error: received extra message after trailer",
                              "InvalidArgument")]
         ELSE IF acc.message # <<>>
         THEN [acc EXCEPT !.err =
                 ConnectError("protocol error: received extra output message for unary method",
                              "InvalidArgument")]
         ELSE [acc EXCEPT !.message = <<env.msg>>]

\* The body of the loop over the envelopes.
UnaryOnEnvelope(acc, env) ==
    IF env.end
    THEN IF acc.trailer # <<>>
         THEN [acc EXCEPT !.err =
                 ConnectError("protocol error: received extra trailer", "InvalidArgument")]
         ELSE [acc EXCEPT !.trailer = <<env.trailer>>]
    ELSE IF acc.message # <<>>
         THEN [acc EXCEPT !.err =
                 ConnectError("protocol error: received extra output message for unary method",
                              "InvalidArgument")]
         ELSE [acc EXCEPT !.message = <<env.msg>>]

\* UnaryResult without the missing-message check: an absent message is returned
\* as the default message.
UnaryResult_NoMessageCheck(acc, header) ==
    IF acc.trailer = <<>>
    THEN UnaryFail(ConnectError("protocol error: missing trailer", "InvalidArgument"))
    ELSE IF validateTrailer(acc.trailer[1]) # NoErr
    THEN UnaryFail(validateTrailer(acc.trailer[1]))
    ELSE UnaryOk(IF acc.message = <<>> THEN 0 ELSE acc.message[1], acc.trailer[1], header)

\* UnaryResult with the missing-message check moved before validateTrailer.
UnaryResult_MessageCheckFirst(acc, header) ==
    IF acc.trailer = <<>>
    THEN UnaryFail(ConnectError("protocol error: missing trailer", "InvalidArgument"))
    ELSE IF acc.message = <<>>
    THEN UnaryFail(ConnectError("protocol error: missing output message for unary method",
                                "InvalidArgument"))
    ELSE IF validateTrailer(acc.trailer[1]) # NoErr
    THEN UnaryFail(validateTrailer(acc.trailer[1]))
    ELSE UnaryOk(acc.message[1], acc.trailer[1], header)

\* What the call settles to once the body has been read to its end.
UnaryResult(acc, header) ==
    IF acc.trailer = <<>>
    THEN UnaryFail(ConnectError("protocol error: missing trailer", "InvalidArgument"))
    ELSE IF validateTrailer(acc.trailer[1]) # NoErr
    THEN UnaryFail(validateTrailer(acc.trailer[1]))
    ELSE IF acc.message = <<>>
    THEN UnaryFail(ConnectError("protocol error: missing output message for unary method",
                                "InvalidArgument"))
    ELSE UnaryOk(acc.message[1], acc.trailer[1], header)

\* await opt.client(...), then validateResponseWithCompression.
UnaryResponse ==
    /\ upc = "request"
    /\ LET v == validateResponseWithCompression(resp.status, resp.header)
       IN  IF resp.fails
           THEN upc' = "done" /\ uresult' = UnaryFail(RequestError)
           ELSE IF v.err # NoErr
           THEN upc' = "done" /\ uresult' = UnaryFail(v.err)
           ELSE upc' = "body" /\ uresult' = uresult
    /\ UNCHANGED <<resp, bodyPos, uacc, streamVars>>

\* One turn of "for await (const env of iterable)" with an envelope.
UnaryReadEnvelope ==
    /\ upc = "body"
    /\ BodyItem(resp, bodyPos).t = "env"
    /\ LET acc == UnaryOnEnvelope(uacc, BodyItem(resp, bodyPos).env)
       IN  /\ uacc' = acc
           /\ IF acc.err # NoErr
              THEN upc' = "done" /\ uresult' = UnaryFail(acc.err)
              ELSE upc' = upc /\ uresult' = uresult
    /\ bodyPos' = bodyPos + 1
    /\ UNCHANGED <<resp, streamVars>>

\* The response pipeline raises: pipeTo rejects with that error.
UnaryBodyError ==
    /\ upc = "body"
    /\ BodyItem(resp, bodyPos).t = "error"
    /\ upc' = "done"
    /\ uresult' = UnaryFail(BodyError)
    /\ bodyPos' = bodyPos + 1
    /\ UNCHANGED <<resp, uacc, streamVars>>

\* The body ends: pipeTo returns {trailer, message}, the checks after it run.
UnaryBodyEnd ==
    /\ upc = "body"
    /\ BodyItem(resp, bodyPos).t = "eof"
    /\ upc' = "done"
    /\ uresult' = UnaryResult(uacc, resp.header)
    /\ UNCHANGED <<resp, bodyPos, uacc, streamVars>>

StreamIdle ==
    /\ uRes = "pending"
    /\ responseHeader = Pending
    /\ responseTrailer = Pending
    /\ outputIt = 0
    /\ iters = <<>>
    /\ readers = [r \in Readers |-> "idle"]
    /\ waiters = <<>>
    /\ jobs = <<>>
    /\ results = <<>>
    /\ readsIssued = 0
    /\ aborted = FALSE
    /\ writable = [closed |-> FALSE, written |-> 0]
    /\ sendsIssued = 0

\* A unary call right after opt.client() was invoked.
UnaryInit ==
    /\ resp \in Responses
    /\ bodyPos = 1
    /\ upc = "request"
    /\ uacc = NoAcc
    /\ uresult = UnaryPending
    /\ StreamIdle

UnaryNext ==
    \/ UnaryResponse
    \/ UnaryReadEnvelope
    \/ UnaryBodyError
    \/ UnaryBodyEnd

UnarySpec == UnaryInit /\ [][UnaryNext]_vars

\* ------------------------------------------------- streaming connection
\* What a read() call settles to. trailerWas records the state responseTrailer
\* was in when the step that decided the outcome began, afterAbort whether the
\* signal was aborted by then.
ReadResult(kind, msg, err, trailerWas) ==
    [kind |-> kind, msg |-> msg, err |-> err, trailerWas |-> trailerWas,
     afterAbort |-> aborted]

NoResult ==
    [kind |-> "none", msg |-> 0, err |-> NoErr, trailerWas |-> "pending",
     afterAbort |-> FALSE]

\* Promise reaction jobs.
HeaderJob == [t |-> "header", reader |-> 0, res |-> NoResult]

AfterHeadJob(r) == [t |-> "afterHead", reader |-> r, res |-> NoResult]

ResumeJob(r, res) == [t |-> "resume", reader |-> r, res |-> res]

\* The async generator handed to pipe() as its last stage, and the next()
\* requests queued on it.
NewIter(foundStatus, r) ==
    [foundStatus |-> foundStatus, trailerReceived |-> FALSE, done |-> FALSE,
     queue |-> <<r>>]

\* What one turn of the generator does: act is "continue", "yield", "return"
\* or "throw"; settle is what responseTrailer is settled to (Pending: nothing).
Effect(act, msg, err, settle, trailerReceived) ==
    [act |-> act, msg |-> msg, err |-> err, settle |-> settle,
     trailerReceived |-> trailerReceived]

Throw(e, trailerReceived) == Effect("throw", 0, e, Pending, trailerReceived)

RejectAndThrow(e, trailerReceived) == Effect("throw", 0, e, Rejected(e), trailerReceived)

ExtraTrailer == ConnectError("protocol error: received extra trailer", "InvalidArgument")

ExtraMessage ==
    ConnectError("protocol error: received extra message after trailer", "InvalidArgument")

MissingTrailer == ConnectError("protocol error: missing trailer", "InvalidArgument")

\* The trailers-only branch: one next() on the pipeline, which must be done.
TrailersOnlyStep(item) ==
    CASE item.t = "eof" -> Effect("return", 0, NoErr, Pending, FALSE)
      [] item.t = "env" -> RejectAndThrow(ExtraTrailer, FALSE)
      [] item.t = "canceled" -> Throw(CanceledError, FALSE)
      [] OTHER -> Throw(BodyError, FALSE)

\* ChunkStep without the check for a message after the trailer.
ChunkStep_YieldsAfterTrailer(trailerReceived, chunk) ==
    IF chunk.end
    THEN IF trailerReceived
         THEN RejectAndThrow(ExtraTrailer, TRUE)
         ELSE IF validateTrailer(chunk.trailer) # NoErr
         THEN Throw(validateTrailer(chunk.trailer), TRUE)
         ELSE Effect("continue", 0, NoErr, Resolved(chunk.trailer), TRUE)
    ELSE Effect("yield", chunk.msg, NoErr, Pending, trailerReceived)

\* ChunkStep that records the trailer without resolving responseTrailer.
ChunkStep_NeverResolves(trailerReceived, chunk) ==
    IF chunk.end
    THEN IF trailerReceived
         THEN RejectAndThrow(ExtraTrailer, TRUE)
         ELSE IF validateTrailer(chunk.trailer) # NoErr
         THEN Throw(validateTrailer(chunk.trailer), TRUE)
         ELSE Effect("continue", 0, NoErr, Pending, TRUE)
    ELSE IF trailerReceived
         THEN RejectAndThrow(ExtraMessage, TRUE)
         ELSE Effect("yield", chunk.msg, NoErr, Pending, FALSE)

\* ChunkStep that resolves responseTrailer without validating the trailer.
ChunkStep_ResolvesUnvalidated(trailerReceived, chunk) ==
    IF chunk.end
    THEN IF trailerReceived
         THEN RejectAndThrow(ExtraTrailer, TRUE)
         ELSE Effect("continue", 0, NoErr, Resolved(chunk.trailer), TRUE)
    ELSE IF trailerReceived
         THEN RejectAndThrow(ExtraMessage, TRUE)
         ELSE Effect("yield", chunk.msg, NoErr, Pending, FALSE)

\* One turn of the loop with a chunk.
ChunkStep(trailerReceived, chunk) ==
    IF chunk.end
    THEN IF trailerReceived
         THEN RejectAndThrow(ExtraTrailer, TRUE)
         ELSE IF validateTrailer(chunk.trailer) # NoErr
         THEN Throw(validateTrailer(chunk.trailer), TRUE)
         ELSE Effect("continue", 0, NoErr, Resolved(chunk.trailer), TRUE)
    ELSE IF trailerReceived
         THEN RejectAndThrow(ExtraMessage, TRUE)
         ELSE Effect("yield", chunk.msg, NoErr, Pending, FALSE)

\* EndStep without the missing-trailer check.
EndStep_NoTrailerCheck(trailerReceived) ==
    Effect("return", 0, NoErr, Pending, trailerReceived)

\* The loop ends with the body.
EndStep(trailerReceived) ==
    IF ~trailerReceived
    THEN RejectAndThrow(MissingTrailer, FALSE)
    ELSE Effect("return", 0, NoErr, Pending, TRUE)

\* One turn of the generator g on the next item of the response pipeline.
GenStep(g, item) ==
    IF g.foundStatus THEN TrailersOnlyStep(item)
    ELSE CASE item.t = "env" -> ChunkStep(g.trailerReceived, item.env)
           [] item.t = "eof" -> EndStep(g.trailerReceived)
           [] item.t = "canceled" -> Throw(CanceledError, g.trailerReceived)
           [] OTHER -> Throw(BodyError, g.trailerReceived)

\* SettleReactions with the then() of responseHeader registered last.
SettleReactions_HeaderLast(w) ==
    [i \in 1..Len(w) |-> AfterHeadJob(w[i])] \o <<HeaderJob>>

\* The reactions queued when universalResponsePromise settles: the then() of
\* responseHeader was registered when conn was built, before any read().
SettleReactions(w) ==
    <<HeaderJob>> \o [i \in 1..Len(w) |-> AfterHeadJob(w[i])]

\* What universalResponsePromise was rejected with.
RejectionOf(u) == IF u = "canceled" THEN CanceledError ELSE RequestError

\* opt.client() settles universalResponsePromise.
HttpSettle ==
    /\ upc = "idle"
    /\ uRes = "pending"
    /\ uRes' = IF resp.fails THEN "rejected" ELSE "fulfilled"
    /\ jobs' = jobs \o SettleReactions(waiters)
    /\ waiters' = <<>>
    /\ UNCHANGED <<resp, bodyPos, unaryVars, aborted, sendVars, responseHeader,
                   responseTrailer, outputIt, iters, readers, results, readsIssued>>

\* RunHeaderJob that settles responseTrailer as soon as a trailers-only head
\* has arrived.
RunHeaderJob_SettlesTrailer ==
    /\ jobs # <<>>
    /\ Head(jobs).t = "header"
    /\ responseHeader' = IF uRes # "fulfilled" THEN Rejected(RejectionOf(uRes))
                         ELSE Resolved(resp.header)
    /\ responseTrailer' =
          IF uRes = "fulfilled"
             /\ validateResponseWithCompression(resp.status, resp.header).foundStatus
          THEN Settle(responseTrailer, Resolved(resp.header))
          ELSE responseTrailer
    /\ jobs' = Tail(jobs)
    /\ UNCHANGED <<resp, bodyPos, unaryVars, aborted, sendVars, uRes, outputIt, iters,
                   readers, waiters, results, readsIssued>>

\* responseHeader: universalResponsePromise.then((r) => r.header).
RunHeaderJob ==
    /\ jobs # <<>>
    /\ Head(jobs).t = "header"
    /\ responseHeader' = IF uRes # "fulfilled" THEN Rejected(RejectionOf(uRes))
                         ELSE Resolved(resp.header)
    /\ jobs' = Tail(jobs)
    /\ UNCHANGED <<resp, bodyPos, unaryVars, aborted, sendVars, uRes, responseTrailer,
                   outputIt, iters, readers, waiters, results, readsIssued>>

\* A caller invokes conn.read(): up to the first await.
ReadCall(r) ==
    /\ upc = "idle"
    /\ readers[r] = "idle"
    /\ readsIssued < MaxReads
    /\ readsIssued' = readsIssued + 1
    /\ IF outputIt = 0
       THEN /\ readers' = [readers EXCEPT ![r] = "awaitHead"]
            /\ IF uRes = "pending"
               THEN waiters' = Append(waiters, r) /\ jobs' = jobs
               ELSE waiters' = waiters /\ jobs' = Append(jobs, AfterHeadJob(r))
            /\ iters' = iters
       ELSE /\ readers' = [readers EXCEPT ![r] = "awaitNext"]
            /\ iters' = [iters EXCEPT ![outputIt].queue = Append(@, r)]
            /\ UNCHANGED <<waiters, jobs>>
    /\ UNCHANGED <<resp, bodyPos, unaryVars, aborted, sendVars, uRes, responseHeader,
                   responseTrailer, outputIt, results>>

\* read() resumes after "await universalResponsePromise": it throws, or builds
\* the response pipeline, assigns outputIt and calls outputIt.next().
RunAfterHead ==
    /\ jobs # <<>>
    /\ Head(jobs).t = "afterHead"
    /\ LET r == Head(jobs).reader
           v == validateResponseWithCompression(resp.status, resp.header)
           e == IF uRes # "fulfilled" THEN RejectionOf(uRes) ELSE v.err
       IN  IF e # NoErr
           THEN /\ results' = Append(results,
                                     ReadResult("error", 0, e, responseTrailer.state))
                /\ readers' = [readers EXCEPT ![r] = "idle"]
                /\ UNCHANGED <<iters, outputIt>>
           ELSE /\ iters' = Append(iters, NewIter(v.foundStatus, r))
                /\ outputIt' = Len(iters) + 1
                /\ readers' = [readers EXCEPT ![r] = "awaitNext"]
                /\ results' = results
    /\ jobs' = Tail(jobs)
    /\ UNCHANGED <<resp, bodyPos, unaryVars, aborted, sendVars, uRes, responseHeader,
                   responseTrailer, waiters, readsIssued>>

\* Iterator i serves the oldest next() request: a finished generator answers
\* done; a live one takes the next item of the response pipeline.
IterStep(i) ==
    /\ iters[i].queue # <<>>
    /\ LET g == iters[i]
           r == Head(g.queue)
           item == IF aborted THEN CanceledItem ELSE BodyItem(resp, bodyPos)
           eff == GenStep(g, item)
           was == responseTrailer.state
       IN  IF g.done
           THEN /\ iters' = [iters EXCEPT ![i].queue = Tail(@)]
                /\ jobs' = Append(jobs, ResumeJob(r, ReadResult("done", 0, NoErr, was)))
                /\ UNCHANGED <<bodyPos, responseTrailer>>
           ELSE /\ bodyPos' = IF item.t \in {"eof", "canceled"} THEN bodyPos ELSE bodyPos + 1
                /\ responseTrailer' = Settle(responseTrailer, eff.settle)
                /\ CASE eff.act = "continue" ->
                          /\ iters' = [iters EXCEPT ![i].trailerReceived = eff.trailerReceived]
                          /\ jobs' = jobs
                     [] eff.act = "yield" ->
                          /\ iters' = [iters EXCEPT ![i].queue = Tail(@)]
                          /\ jobs' = Append(jobs,
                                 ResumeJob(r, ReadResult("value", eff.msg, NoErr, was)))
                     [] eff.act = "return" ->
                          /\ iters' = [iters EXCEPT ![i].queue = Tail(@), ![i].done = TRUE]
                          /\ jobs' = Append(jobs,
                                 ResumeJob(r, ReadResult("done", 0, NoErr, was)))
                     [] OTHER ->
                          /\ iters' = [iters EXCEPT ![i].queue = Tail(@), ![i].done = TRUE,
                                                    ![i].trailerReceived = eff.trailerReceived]
                          /\ jobs' = Append(jobs,
                                 ResumeJob(r, ReadResult("error", 0, eff.err, was)))
    /\ UNCHANGED <<resp, unaryVars, aborted, sendVars, uRes, responseHeader, outputIt,
                   readers, waiters,
                   results, readsIssued>>

\* read() resumes after "await outputIt.next()" and settles.
RunResume ==
    /\ jobs # <<>>
    /\ Head(jobs).t = "resume"
    /\ results' = Append(results, Head(jobs).res)
    /\ readers' = [readers EXCEPT ![Head(jobs).reader] = "idle"]
    /\ jobs' = Tail(jobs)
    /\ UNCHANGED <<resp, bodyPos, unaryVars, aborted, sendVars, uRes, responseHeader,
                   responseTrailer, outputIt, iters, waiters, readsIssued>>

\* A streaming connection right after conn was built.
Init ==
    /\ resp \in Responses
    /\ bodyPos = 1
    /\ upc = "idle"
    /\ uacc = NoAcc
    /\ uresult = UnaryPending
    /\ StreamIdle

Next ==
    \/ HttpSettle
    \/ RunHeaderJob
    \/ \E r \in Readers : ReadCall(r)
    \/ RunAfterHead
    \/ \E i \in 1..Len(iters) : IterStep(i)
    \/ RunResume

Spec == Init /\ [][Next]_vars

\* The connection used by one consumer that awaits each read() before the next.
NoReadInFlight == \A r \in Readers : readers[r] = "idle"

SeqNext ==
    \/ HttpSettle
    \/ RunHeaderJob
    \/ \E r \in Readers : NoReadInFlight /\ ReadCall(r)
    \/ RunAfterHead
    \/ \E i \in 1..Len(iters) : IterStep(i)
    \/ RunResume

SeqSpec == Init /\ [][SeqNext]_vars

\* conn.send(message): await writable.write(message). A write to a closed
\* writable is refused and send() rejects.
Send ==
    /\ upc = "idle"
    /\ sendsIssued < MaxSends
    /\ sendsIssued' = sendsIssued + 1
    /\ writable' = IF writable.closed THEN writable
                   ELSE [writable EXCEPT !.written = @ + 1]
    /\ UNCHANGED <<resp, bodyPos, unaryVars, aborted, uRes, responseHeader,
                   responseTrailer, outputIt, iters, readers, waiters, jobs, results,
                   readsIssued>>

\* conn.close(): await writable.close().
Close ==
    /\ upc = "idle"
    /\ ~writable.closed
    /\ writable' = [writable EXCEPT !.closed = TRUE]
    /\ UNCHANGED <<resp, bodyPos, unaryVars, aborted, sendsIssued, uRes, responseHeader,
                   responseTrailer, outputIt, iters, readers, waiters, jobs, results,
                   readsIssued>>

\* The connection with its send side in use.
SendNext ==
    \/ HttpSettle
    \/ RunHeaderJob
    \/ \E r \in Readers : ReadCall(r)
    \/ RunAfterHead
    \/ \E i \in 1..Len(iters) : IterStep(i)
    \/ RunResume
    \/ Send
    \/ Close

SendSpec == Init /\ [][SendNext]_vars

\* The caller aborts the signal of the call. The signal was handed to
\* opt.client and to nothing else: the client rejects the response promise if
\* it has not settled it yet, and fails the response body from then on.
Abort ==
    /\ upc = "idle"
    /\ ~aborted
    /\ aborted' = TRUE
    /\ IF uRes = "pending"
       THEN /\ uRes' = "canceled"
            /\ jobs' = jobs \o SettleReactions(waiters)
            /\ waiters' = <<>>
       ELSE UNCHANGED <<uRes, jobs, waiters>>
    /\ UNCHANGED <<resp, bodyPos, unaryVars, sendVars, responseHeader, responseTrailer,
                   outputIt, iters, readers, results, readsIssued>>

\* One consumer awaiting each read(), and a signal that may be aborted.
CancelNext ==
    \/ HttpSettle
    \/ RunHeaderJob
    \/ \E r \in Readers : NoReadInFlight /\ ReadCall(r)
    \/ RunAfterHead
    \/ \E i \in 1..Len(iters) : IterStep(i)
    \/ RunResume
    \/ Abort

CancelSpec == Init /\ [][CancelNext]_vars

\* ------------------------------------------------- unary call: properties
HeadValid ==
    /\ ~resp.fails
    /\ validateResponseWithCompression(resp.status, resp.header).err = NoErr

TrailerIdx == {i \in 1..Len(resp.body) : resp.body[i].end}

MessageIdx == {i \in 1..Len(resp.body) : ~resp.body[i].end}

StatusOf(env) == env.trailer.grpcStatus[1]

\* A trailers-only response: grpc-status 0 in the headers and an empty body.
TrailersOnlyEmptyUnary ==
    /\ HeadValid
    /\ validateResponseWithCompression(resp.status, resp.header).foundStatus
    /\ resp.body = <<>>
    /\ resp.bodyEnd = "eof"

\* C1: in a unary call with a valid response head whose body holds exactly one
\* trailer envelope and at most one message envelope, a non-zero grpc-status in
\* that trailer makes the call fail with the error of that status, with or
\* without a message envelope; and no unary call returns a message when a
\* trailer of its body carries a non-zero grpc-status.
C1_NonOkTrailerFailsUnary ==
    upc = "done" =>
        /\ ( /\ HeadValid
             /\ resp.bodyEnd = "eof"
             /\ Cardinality(TrailerIdx) = 1
             /\ Cardinality(MessageIdx) <= 1
             /\ \E i \in TrailerIdx : StatusOf(resp.body[i]) # 0 )
           => \E i \in TrailerIdx :
                 /\ uresult.kind = "error"
                 /\ uresult.err = ConnectError("", CodeOfStatus(StatusOf(resp.body[i])))
        /\ uresult.kind = "ok" =>
             \A i \in TrailerIdx : StatusOf(resp.body[i]) = 0

\* C1 witness: a body that is only a trailer with grpc-status 8 has failed the
\* call with ResourceExhausted.
C1_Witness ==
    /\ upc = "done"
    /\ HeadValid
    /\ resp.body = <<TrailerEnv(8)>>
    /\ resp.bodyEnd = "eof"
    /\ uresult.kind = "error"
    /\ uresult.err.code = "ResourceExhausted"

\* C3: a unary call returns successfully if and only if the response head is
\* valid, the body is exactly one message envelope and one trailer envelope, in
\* either order, and that trailer's grpc-status is 0; otherwise it rejects. A
\* successful call returns that message, that trailer and the response headers.
C3_UnarySuccessIff ==
    upc = "done" =>
        /\ uresult.kind \in {"ok", "error"}
        /\ uresult.kind = "ok" <=>
             /\ HeadValid
             /\ resp.bodyEnd = "eof"
             /\ Cardinality(MessageIdx) = 1
             /\ Cardinality(TrailerIdx) = 1
             /\ \A i \in TrailerIdx : StatusOf(resp.body[i]) = 0
        /\ uresult.kind = "ok" =>
             /\ \A i \in MessageIdx : uresult.message = resp.body[i].msg
             /\ \A i \in TrailerIdx : uresult.trailer = resp.body[i].trailer
             /\ uresult.header = resp.header
        /\ uresult.kind = "error" => uresult.err # NoErr

\* C3 witness: the call succeeded on message-then-trailer.
C3_Witness ==
    /\ upc = "done"
    /\ uresult.kind = "ok"
    /\ resp.body = <<MsgEnv(2), TrailerEnv(0)>>
    /\ uresult.message = 2

\* C4 as claimed: no unary call succeeds on a body in which a message envelope
\* follows the trailer envelope.
C4_TrailerIsLastUnary ==
    (upc = "done" /\ uresult.kind = "ok") =>
        ~ \E i \in TrailerIdx, j \in MessageIdx : i < j

\* C4 as amended: the single message envelope and the single trailer envelope
\* are accepted in either order, so trailer-then-message succeeds when the
\* grpc-status is 0; what never succeeds is a body in which any envelope follows
\* both the first message and the first trailer.
C4_EitherOrderUnary ==
    upc = "done" =>
        /\ ( /\ HeadValid
             /\ resp.bodyEnd = "eof"
             /\ Len(resp.body) = 2
             /\ resp.body[1] = TrailerEnv(0)
             /\ ~resp.body[2].end )
           => (uresult.kind = "ok" /\ uresult.message = resp.body[2].msg)
        /\ uresult.kind = "ok" =>
             /\ Len(resp.body) = 2
             /\ resp.body[1].end # resp.body[2].end

\* C4 witness: the call succeeded on trailer-then-message.
C4_Witness ==
    /\ upc = "done"
    /\ uresult.kind = "ok"
    /\ resp.body = <<TrailerEnv(0), MsgEnv(1)>>
    /\ uresult.message = 1

UnaryMissingMessage ==
    ConnectError("protocol error: missing output message for unary method", "InvalidArgument")

UnaryMissingTrailer == ConnectError("protocol error: missing trailer", "InvalidArgument")

UnaryExtraMessage ==
    ConnectError("protocol error: received extra output message for unary method",
                 "InvalidArgument")

\* C14 as claimed: a unary call whose response is trailers-only (grpc-status 0
\* in the response headers) with an empty body fails with "missing output
\* message", the headers standing for the trailer, and not with "missing
\* trailer".
C14_UnaryTrailersOnlyMissingMessage ==
    (upc = "done" /\ TrailersOnlyEmptyUnary) =>
        /\ uresult.kind = "error"
        /\ uresult.err = UnaryMissingMessage

SecondOf(idx) ==
    IF Cardinality(idx) < 2 THEN Len(resp.body) + 1
    ELSE CHOOSE k \in idx : Cardinality({j \in idx : j < k}) = 1

FirstExtra ==
    IF SecondOf(MessageIdx) < SecondOf(TrailerIdx) THEN SecondOf(MessageIdx)
    ELSE SecondOf(TrailerIdx)

\* C16: in a unary call whose body is read, the first envelope that is a second
\* message fails the call with "received extra output message for unary method"
\* and the first that is a second trailer with "received extra trailer", as soon
\* as it is read: nothing after it is read, and neither the grpc-status of any
\* trailer nor the way the body ends changes the error.
C16_ExtraEnvelopeFailsUnary ==
    (upc = "done" /\ HeadValid /\ FirstExtra <= Len(resp.body)) =>
        /\ uresult.kind = "error"
        /\ uresult.err = IF resp.body[FirstExtra].end THEN ExtraTrailer
                         ELSE UnaryExtraMessage
        /\ bodyPos = FirstExtra + 1

\* C16 witness: a trailer with grpc-status 8, then a second trailer, then a
\* message: the call failed with "received extra trailer" on the second envelope.
C16_Witness ==
    /\ upc = "done"
    /\ resp.body = <<TrailerEnv(8), TrailerEnv(0), MsgEnv(1)>>
    /\ uresult.err = ExtraTrailer
    /\ bodyPos = 3

\* --------------------------------------------- streaming call: properties
ResultIdx == DOMAIN results

\* The messages read() has returned, in completion order.
RECURSIVE ValuesOf(_)
ValuesOf(rs) ==
    IF rs = <<>> THEN <<>>
    ELSE IF Head(rs).kind = "value" THEN <<Head(rs).msg>> \o ValuesOf(Tail(rs))
    ELSE ValuesOf(Tail(rs))

FoundStatus == validateResponseWithCompression(resp.status, resp.header).foundStatus

\* Position of the first trailer envelope of the body, Len + 1 when none.
FirstTrailer ==
    IF TrailerIdx = {} THEN Len(resp.body) + 1
    ELSE CHOOSE i \in TrailerIdx : \A j \in TrailerIdx : i <= j

MsgsBeforeTrailer == [i \in 1..(FirstTrailer - 1) |-> resp.body[i].msg]

IsPrefix(a, b) == Len(a) <= Len(b) /\ \A i \in 1..Len(a) : a[i] = b[i]

\* A read() has failed with e, or is about to (its rejection is queued).
ReadFailsWith(e) ==
    \/ \E i \in ResultIdx : results[i].kind = "error" /\ results[i].err = e
    \/ \E j \in DOMAIN jobs :
          jobs[j].t = "resume" /\ jobs[j].res.kind = "error" /\ jobs[j].res.err = e

\* Nothing of the connection is left to run.
Quiescent == jobs = <<>> /\ waiters = <<>> /\ NoReadInFlight

\* C2 as claimed: the read that consumes an in-body trailer with a non-zero
\* grpc-status rejects with the error of that status, and responseTrailer,
\* unsettled until then, is rejected with the same error.
C2_NonOkTrailerRejectsTrailerPromise ==
    \A i \in ResultIdx :
        ( /\ results[i].kind = "error"
          /\ results[i].err \in {validateTrailer(TrailerBlock(st)) : st \in TrailerStatuses \ {0}}
          /\ results[i].trailerWas = "pending" )
        => responseTrailer = Rejected(results[i].err)

\* C5: for reads made one after the other, the values returned are the message
\* envelopes that precede the first trailer envelope, in wire order (all of
\* them once a read has returned done and none has failed); once the trailer has
\* been consumed, a further envelope is never returned and makes the read fail
\* with InvalidArgument, "received extra trailer" for a trailer and "received
\* extra message after trailer" for a message, and nothing is consumed after it.
C5_MessagesThenTrailer ==
    /\ IsPrefix(ValuesOf(results), MsgsBeforeTrailer)
    /\ ( /\ \E i \in ResultIdx : results[i].kind = "done"
         /\ \A i \in ResultIdx : results[i].kind # "error" )
       => ValuesOf(results) = MsgsBeforeTrailer
    /\ (bodyPos - 1 > FirstTrailer /\ FirstTrailer < Len(resp.body)) =>
         /\ bodyPos - 1 = FirstTrailer + 1
         /\ \A i \in 1..Len(iters) : iters[i].done
         /\ ReadFailsWith(IF resp.body[FirstTrailer + 1].end THEN ExtraTrailer
                          ELSE ExtraMessage)

\* C5 witness: a message, then a valid trailer, then a message: the first read
\* returned the message and the second failed on the message after the trailer.
C5_Witness ==
    /\ resp.body = <<MsgEnv(2), TrailerEnv(0), MsgEnv(1)>>
    /\ Len(results) = 2
    /\ results[1].kind = "value" /\ results[1].msg = 2
    /\ results[2].kind = "error" /\ results[2].err = ExtraMessage

TrailersOnlyEmpty ==
    HeadValid /\ FoundStatus /\ resp.body = <<>> /\ resp.bodyEnd = "eof"

\* C6 as claimed: on a trailers-only response with an empty body every read
\* returns done, and once a read has returned and nothing is left to run,
\* responseTrailer is resolved with the response header block.
C6_TrailersOnlyResolvesTrailer ==
    TrailersOnlyEmpty =>
        /\ \A i \in ResultIdx : results[i].kind = "done"
        /\ (results # <<>> /\ Quiescent) => responseTrailer = Resolved(resp.header)

\* The read that reached the end of the body: the first one that returned no
\* message.
FirstNonValue ==
    CHOOSE i \in ResultIdx :
        results[i].kind # "value" /\ \A j \in 1..(i - 1) : results[j].kind = "value"

EndsWithoutTrailer == HeadValid /\ TrailerIdx = {} /\ resp.bodyEnd = "eof"

MissingTrailerOutcome ==
    (\E i \in ResultIdx : results[i].kind # "value") =>
        /\ results[FirstNonValue].kind = "error"
        /\ results[FirstNonValue].err = MissingTrailer
        /\ responseTrailer = Rejected(MissingTrailer)

\* C7 as claimed: whenever the body ends without a trailer envelope, the read
\* that reaches the end rejects with "missing trailer" and responseTrailer is
\* rejected with it.
C7_MissingTrailer == EndsWithoutTrailer => MissingTrailerOutcome

\* C7 as amended: the same, for a response whose headers carry no grpc-status
\* (a trailers-only response with an empty body ends with done instead).
C7_MissingTrailerUnlessTrailersOnly ==
    (EndsWithoutTrailer /\ ~FoundStatus) => MissingTrailerOutcome

\* C7 witness: one message and no trailer: the second read failed.
C7_Witness ==
    /\ resp.body = <<MsgEnv(1)>>
    /\ EndsWithoutTrailer /\ ~FoundStatus
    /\ Len(results) = 2
    /\ results[2].err = MissingTrailer
    /\ responseTrailer = Rejected(MissingTrailer)

Yielded ==
    Len(ValuesOf(results))
    + Cardinality({j \in DOMAIN jobs : jobs[j].t = "resume" /\ jobs[j].res.kind = "value"})

C9_HeaderSettledBeforeRead ==
    results # <<>> =>
        /\ responseHeader.state # "pending"
        /\ (\E i \in ResultIdx : results[i].kind \in {"value", "done"})
              => responseHeader = Resolved(resp.header)
        /\ resp.fails =>
              /\ responseHeader = Rejected(RequestError)
              /\ \A i \in ResultIdx :
                    results[i].kind = "error" /\ results[i].err = RequestError

\* C9 witness: the request failed, a read has rejected and so has responseHeader.
C9_Witness ==
    /\ resp.fails
    /\ results # <<>>
    /\ results[1].kind = "error"
    /\ responseHeader.state = "rejected"

\* C10 as claimed: whenever a read rejects while responseTrailer is unsettled,
\* responseTrailer is rejected with the same error.
C10_FailedReadRejectsTrailer ==
    \A i \in ResultIdx :
        (results[i].kind = "error" /\ results[i].trailerWas = "pending")
        => responseTrailer = Rejected(results[i].err)

\* C11 as claimed: once a read has rejected, every later read rejects with the
\* same error; none returns done or a value.
C11_FailedReadStaysFailed ==
    \A i \in ResultIdx, j \in ResultIdx :
        (i < j /\ results[i].kind = "error") =>
            /\ results[j].kind = "error"
            /\ results[j].err = results[i].err

\* C17 as claimed: at most one response pipeline is ever created over the
\* response body, whatever the interleaving of read calls, and the messages
\* reach the reads in wire order.
C17_OneResponsePipeline ==
    /\ Len(iters) <= 1
    /\ IsPrefix(ValuesOf(results), MsgsBeforeTrailer)

\* responseTrailer does not change once it is settled.
TrailerSettlesOnce ==
    responseTrailer.state # "pending" => responseTrailer' = responseTrailer

\* C18: responseTrailer is settled at most once and never changes afterwards;
\* a read that fails on an envelope after the trailer ("received extra trailer"
\* or "received extra message after trailer", the response not being
\* trailers-only) leaves it resolved with a trailer of grpc-status 0 that was
\* consumed before that envelope.
C18_TrailerSettledOnce ==
    /\ [][TrailerSettlesOnce]_vars
    /\ [](\A e \in {ExtraTrailer, ExtraMessage} :
            (ReadFailsWith(e) /\ ~FoundStatus) =>
                /\ responseTrailer.state = "resolved"
                /\ \E k \in TrailerIdx :
                      /\ k < bodyPos - 1
                      /\ StatusOf(resp.body[k]) = 0
                      /\ responseTrailer.value = resp.body[k].trailer)

\* C18 witness: a read has rejected on a message after the trailer and
\* responseTrailer is resolved with that trailer.
C18_Witness ==
    /\ \E i \in ResultIdx : results[i].kind = "error" /\ results[i].err = ExtraMessage
    /\ responseTrailer = Resolved(TrailerBlock(0))


\* --------------------------------------------------- cancellation: properties
\* C12 as claimed: once the signal is aborted, a read that was pending or is
\* made later, on a stream that has not delivered its trailer, fails with
\* Canceled, and when such a read has settled and no reaction is left to run,
\* neither responseHeader nor responseTrailer is pending, each one that the
\* abort found unsettled being rejected with Canceled.
C12_AbortCancelsReadsAndPromises ==
    /\ \A i \in ResultIdx :
          (results[i].afterAbort /\ results[i].trailerWas = "pending") =>
              /\ results[i].kind = "error"
              /\ results[i].err = CanceledError
    /\ (Quiescent /\ \E i \in ResultIdx : results[i].afterAbort) =>
          /\ responseHeader.state # "pending"
          /\ responseTrailer.state # "pending"
          /\ responseTrailer.state = "rejected" => responseTrailer.err = CanceledError

\* ------------------------------------------------------ send side: properties
ReadFailed == \E i \in ResultIdx : results[i].kind = "error"

\* C13 as claimed: after a read has failed on a response that did arrive, the
\* send side is not open any more and no send writes a message to the
\* request body.
C13_FailedReadClosesSendSide ==
    /\ []((~resp.fails /\ ReadFailed) => writable.closed)
    /\ [][(~resp.fails /\ ReadFailed) => writable'.written = writable.written]_vars

ReadFrame == <<responseTrailer, outputIt, iters, bodyPos>>

SendOrClose == writable' # writable \/ sendsIssued' # sendsIssued

\* C19: as long as read() has not been called, responseTrailer is pending, no
\* response iterator exists and nothing of the response body is consumed,
\* whatever has arrived; a send() or close() changes none of these.
C19_OnlyReadConsumesResponse ==
    /\ [](readsIssued = 0 =>
            /\ responseTrailer = Pending
            /\ outputIt = 0
            /\ iters = <<>>
            /\ bodyPos = 1)
    /\ [][SendOrClose => UNCHANGED ReadFrame]_vars

\* The head of a response whose body holds a trailer has arrived, a message
\* was sent and the send side closed, and read() was never called.
C19_Witness ==
    /\ HeadValid
    /\ TrailerIdx # {}
    /\ resp.bodyEnd = "eof"
    /\ uRes = "fulfilled"
    /\ responseHeader = Resolved(resp.header)
    /\ writable = [closed |-> TRUE, written |-> 1]
    /\ readsIssued = 0
    /\ responseTrailer = Pending

====
